---- MODULE Spec2Model ----
(* The trial session state machine of src/app.py (a Streamlit script).     *)
(* One action is one run of the script from top to bottom with one widget  *)
(* event (or none); st.session_state and the worksheet persist between     *)
(* the runs.  Python text is a sequence of one-character strings, so that  *)
(* strip(), str() and join() are computed and not assumed; Python's None   *)
(* in an integer-valued key is the value None == -1.                       *)
EXTENDS Integers, Sequences, FiniteSets, TLC

\* ------------------------------------------------------------ bounds
MaxTime == 4        \* the clock stops after this many seconds
MaxCatalog == 2     \* most media files of one kind in the directory
MaxCap == 1         \* largest trial cap tried by SpecCap
MaxIndex == 11      \* largest catalog index in a plan tried by SpecCodec
MaxPlanLen == 2     \* longest plan tried by SpecCodec

\* ------------------------------------------------------------ CONFIG
STUDY_ID == "two_second_multimode_nomf_v2"
SHOW_SECONDS == 2
MAX_TRIALS == 30
MIN_TEXT_CHARS == 1
DEFAULT_MODE == "img_sliders"
ALL_MODES == <<"img_sliders", "img_text", "vid_sliders", "vid_text">>
EMOTIONS == <<"Angry", "Happy", "Sad", "Scared",
              "Surprised", "Neutral", "Disgusted", "Contempt">>
RATING_MIN == 0
RATING_MAX == 100
RATING_DEFAULT == 0

None == -1
NoWorksheet == "None"
Worksheet == "responses"
NoChoice == "None"

\* ------------------------------------------------------------ text
Range(s) == {s[k] : k \in DOMAIN s}
Whitespace == {" "}
Digits == <<"0", "1", "2", "3", "4", "5", "6", "7", "8", "9">>

RECURSIVE lstrip(_)
lstrip(s) == IF s # <<>> /\ Head(s) \in Whitespace THEN lstrip(Tail(s)) ELSE s

RECURSIVE rstrip(_)
rstrip(s) ==
    IF s # <<>> /\ s[Len(s)] \in Whitespace
    THEN rstrip(SubSeq(s, 1, Len(s) - 1))
    ELSE s

\* str.strip(): the text without its leading and trailing whitespace
strip(s) == rstrip(lstrip(s))

RECURSIVE str(_)
\* str(n) of a non-negative integer: its decimal digits
str(n) == IF n < 10 THEN <<Digits[n + 1]>>
          ELSE str(n \div 10) \o <<Digits[(n % 10) + 1]>>

RECURSIVE join(_, _)
\* sep.join(parts)
join(sep, parts) ==
    IF parts = <<>> THEN <<>>
    ELSE IF Len(parts) = 1 THEN parts[1]
    ELSE parts[1] \o sep \o join(sep, Tail(parts))

\* mutant: the indices are joined with nothing between them
encode_order_unseparated(selected_indices) ==
    join(<<>>, [k \in 1..Len(selected_indices) |-> str(selected_indices[k])])

\* ",".join(str(idx) for idx in selected_indices)
encode_order(selected_indices) ==
    join(<<",">>, [k \in 1..Len(selected_indices) |-> str(selected_indices[k])])

RECURSIVE split(_, _)
\* the pieces of s between the separators sep (s.split(sep))
split(s, sep) ==
    IF \E k \in 1..Len(s) : s[k] = sep
    THEN LET k == CHOOSE j \in 1..Len(s) :
                      s[j] = sep /\ \A h \in 1..(j - 1) : s[h] # sep
         IN  <<SubSeq(s, 1, k - 1)>> \o split(SubSeq(s, k + 1, Len(s)), sep)
    ELSE <<s>>

RECURSIVE int(_)
\* the number a text of decimal digits writes; no digit at all is no index
int(s) ==
    IF s = <<>> THEN None
    ELSE IF \E k \in 1..Len(s) : s[k] \notin Range(Digits) THEN None
    ELSE LET d == (CHOOSE v \in 1..10 : Digits[v] = s[Len(s)]) - 1
         IN  IF Len(s) = 1 THEN d
             ELSE 10 * int(SubSeq(s, 1, Len(s) - 1)) + d

\* the index list an order-sequence string stands for: its comma-separated
\* fields read as integers, the empty string being the empty list
decode_order(s) ==
    IF s = <<>> THEN <<>>
    ELSE LET fields == split(s, ",")
         IN  [k \in 1..Len(fields) |-> int(fields[k])]

\* datetime.utcnow().isoformat() + "Z" on a clock that counts seconds
isoformat(t) == str(t) \o <<"Z">>

\* mode.startswith("img") and "sliders" in mode, on the members of ALL_MODES
startswith_img(m) == m \in {"img_sliders", "img_text"}
has_sliders(m) == m \in {"img_sliders", "vid_sliders"}

\* ------------------------------------------------------------ inputs
\* values of the ?mode= query parameter: recognised, unrecognised, missing
QueryModes == {"vid_text", "IMG", "missing"}
\* text the participant may leave in the "Participant ID" box
PidTexts == {<<" ", "P", "7", " ">>, <<" ", " ">>}
NameTexts == {<<"A", "n", " ">>, <<" ">>}
AgeInputs == {18}
GenderChoices == {<<>>, <<"M", "a", "l", "e">>}
NationalityTexts == {<<"F", "R">>, <<>>}
ResultChoices == {NoChoice, "Won", "Lost"}
SliderInputs ==
    { [Angry |-> 10, Happy |-> 20, Sad |-> 30, Scared |-> 40,
       Surprised |-> 50, Neutral |-> 60, Disgusted |-> 70,
       Contempt |-> RATING_MAX],
      [Angry |-> RATING_DEFAULT, Happy |-> RATING_DEFAULT,
       Sad |-> RATING_DEFAULT, Scared |-> RATING_DEFAULT,
       Surprised |-> RATING_DEFAULT, Neutral |-> RATING_DEFAULT,
       Disgusted |-> RATING_DEFAULT, Contempt |-> RATING_DEFAULT] }
TextInputs == {<<" ", "o", "k", " ">>, <<" ", " ", " ">>, <<>>}

VARIABLES
    \* st.session_state
    phase, mode, consented, consent_timestamp_iso, participant_id,
    name, age, gender, nationality,
    media_list, idx, order, total_trials, order_sequence, show_started_at,
    responses, ws, current_trial, trial_submitted,
    \* the environment
    now,          \* time.time(), in seconds
    sheet,        \* the rows of the "responses" worksheet
    sheet_url,    \* SHEET_URL of the deployment ("" when not configured)
    query_mode,   \* the ?mode= parameter of the session's URL
    max_trials,   \* the trial cap in force (MAX_TRIALS in the deployed script)
    event,        \* the widget event and inputs of the last script run
    run           \* where a script run stands when it is observed inside
                  \* record_and_next (SpecSteps); "idle" between runs

session == <<phase, mode, consented, consent_timestamp_iso, participant_id,
             name, age, gender, nationality,
             media_list, idx, order, total_trials, order_sequence,
             show_started_at, responses, ws, current_trial, trial_submitted>>
environment == <<now, sheet, sheet_url, query_mode, max_trials>>
vars == <<session, environment, event, run>>

\* ------------------------------------------------------------ utility
\* mutant: the parameter is taken as it comes
get_mode_from_query_unvalidated(raw) ==
    IF raw = "missing" THEN DEFAULT_MODE ELSE raw

get_mode_from_query(raw) ==
    LET m == IF raw = "missing" THEN DEFAULT_MODE ELSE raw
    IN  IF m \in Range(ALL_MODES) THEN m ELSE DEFAULT_MODE

\* uuid4().hex[:8].upper(): an opaque non-empty token
generate_participant_id == <<"7", "F", "3", "A">>

\* every order random.shuffle can leave list(range(n)) in
randomize_order(n) ==
    {p \in [1..n -> 0..(n - 1)] : \A a, b \in 1..n : p[a] = p[b] => a = b}

\* the sorted files of one kind, named by kind and rank
load_media_files(kind, n) == [k \in 1..n |-> <<kind, k>>]

Min(a, b) == IF a < b THEN a ELSE b

\* mutant: the cap is not applied
select_indices_uncapped(full_order, cap) == full_order

\* full_order[:n_trials] with n_trials = min(full_n, cap)
select_indices(full_order, cap) ==
    SubSeq(full_order, 1, Min(Len(full_order), cap))

\* ------------------------------------------------------------ state
\* the keys init_state sets in an empty st.session_state, with their values
init_state(initial_mode) ==
    [phase |-> "consent",
     mode |-> initial_mode,
     consented |-> FALSE,
     consent_timestamp_iso |-> <<>>,
     participant_id |-> <<>>,
     name |-> <<>>,
     age |-> 0,
     gender |-> <<>>,
     nationality |-> <<>>,
     media_list |-> <<>>,
     idx |-> 0,
     order |-> <<>>,
     total_trials |-> 0,
     order_sequence |-> <<>>,
     show_started_at |-> None,
     responses |-> <<>>,
     ws |-> NoWorksheet,
     current_trial |-> None,
     trial_submitted |-> FALSE]

\* st.session_state holds exactly the dictionary d
session_is(d) ==
    /\ phase = d.phase
    /\ mode = d.mode
    /\ consented = d.consented
    /\ consent_timestamp_iso = d.consent_timestamp_iso
    /\ participant_id = d.participant_id
    /\ name = d.name
    /\ age = d.age
    /\ gender = d.gender
    /\ nationality = d.nationality
    /\ media_list = d.media_list
    /\ idx = d.idx
    /\ order = d.order
    /\ total_trials = d.total_trials
    /\ order_sequence = d.order_sequence
    /\ show_started_at = d.show_started_at
    /\ responses = d.responses
    /\ ws = d.ws
    /\ current_trial = d.current_trial
    /\ trial_submitted = d.trial_submitted

InitEnvironment ==
    /\ now = 0
    /\ sheet = <<>>
    /\ sheet_url \in {"", "url"}
    /\ query_mode \in QueryModes
    /\ event = [op |-> "open"]
    /\ run = [at |-> "idle"]

Init ==
    /\ InitEnvironment
    /\ max_trials = MAX_TRIALS
    /\ session_is(init_state(get_mode_from_query(query_mode)))

\* ------------------------------------------------------------ Sheets
\* get_worksheet(): the worksheet, or None when connecting fails
get_worksheet == IF sheet_url = "" THEN {NoWorksheet} ELSE {NoWorksheet, Worksheet}

\* "One-time connect to Sheets": what ss.ws can be once a run has passed it
connected ==
    IF ws = NoWorksheet /\ sheet_url # "" THEN get_worksheet ELSE {ws}

\* the list append_row_to_sheet sends, column by column
ordered(row) ==
    << row.study_id, row.mode, row.participant_id, row.consented,
       row.consent_timestamp_iso, row.name, row.age, row.gender,
       row.nationality, row.trial_index, row.order_index, row.total_trials,
       row.n_completed, row.order_sequence, row.media_kind, row.media_file,
       row.rating_angry, row.rating_happy, row.rating_sad, row.rating_scared,
       row.rating_surprised, row.rating_neutral, row.rating_disgusted,
       row.rating_contempt, row.result_estimate, row.free_text,
       row.response_timestamp_iso >>

\* the worksheet after append_row_to_sheet(w, row); append_ok is FALSE when
\* ws.append_row raises
append_row_to_sheet(w, row, append_ok) ==
    IF w = NoWorksheet THEN sheet
    ELSE IF append_ok THEN Append(sheet, ordered(row))
    ELSE sheet

\* ------------------------------------------------------------ the clock
Tick ==
    /\ UNCHANGED run
    /\ now < MaxTime
    /\ now' = now + 1
    /\ event' = [op |-> "tick"]
    /\ UNCHANGED <<session, sheet, sheet_url, query_mode, max_trials>>

\* ------------------------------------------------------------ consent
\* mutant: no default ID is generated
default_participant_id_kept == participant_id

\* "Generate a default ID if we don't have one yet"
default_participant_id ==
    IF participant_id = <<>> THEN generate_participant_id ELSE participant_id

\* the button "Reset for new participant": st.session_state.clear(), and
\* init_state of the rerun it asks for sets every key to its default
ConsentReset ==
    /\ UNCHANGED run
    /\ phase = "consent"
    /\ LET ss == init_state(get_mode_from_query(query_mode))
       IN  /\ phase' = ss.phase
           /\ mode' = ss.mode
           /\ consented' = ss.consented
           /\ consent_timestamp_iso' = ss.consent_timestamp_iso
           /\ participant_id' = ss.participant_id
           /\ name' = ss.name
           /\ age' = ss.age
           /\ gender' = ss.gender
           /\ nationality' = ss.nationality
           /\ media_list' = ss.media_list
           /\ idx' = ss.idx
           /\ order' = ss.order
           /\ total_trials' = ss.total_trials
           /\ order_sequence' = ss.order_sequence
           /\ show_started_at' = ss.show_started_at
           /\ responses' = ss.responses
           /\ ws' = ss.ws
           /\ current_trial' = ss.current_trial
           /\ trial_submitted' = ss.trial_submitted
    /\ event' = [op |-> "reset"]
    /\ UNCHANGED environment

\* a run of the consent page with no button pressed
ConsentRun ==
    /\ UNCHANGED run
    /\ phase = "consent"
    /\ \E selected_mode \in Range(ALL_MODES), w \in connected :
        /\ mode' = selected_mode
        /\ participant_id' = default_participant_id
        /\ ws' = w
        /\ event' = [op |-> "consent_run"]
    /\ UNCHANGED <<phase, consented, consent_timestamp_iso, name, age, gender,
                   nationality, media_list, idx, order, total_trials,
                   order_sequence, show_started_at, responses, current_trial,
                   trial_submitted, environment>>

\* the button "Continue"
ConsentContinue ==
    /\ UNCHANGED run
    /\ phase = "consent"
    /\ \E selected_mode \in Range(ALL_MODES), w \in connected,
          agreed \in BOOLEAN,
          participant_id_input \in PidTexts \cup {default_participant_id} :
        /\ mode' = selected_mode
        /\ ws' = w
        /\ event' = [op |-> "continue", agreed |-> agreed]
        /\ IF ~agreed
           THEN /\ participant_id' = default_participant_id
                /\ UNCHANGED <<phase, consented, consent_timestamp_iso>>
           ELSE /\ participant_id' =
                      IF strip(participant_id_input) # <<>>
                      THEN strip(participant_id_input)
                      ELSE default_participant_id
                /\ consented' = TRUE
                /\ consent_timestamp_iso' = isoformat(now)
                /\ phase' = "demographics"
    /\ UNCHANGED <<name, age, gender, nationality, media_list, idx, order,
                   total_trials, order_sequence, show_started_at, responses,
                   current_trial, trial_submitted, environment>>

\* ------------------------------------------------------------ demographics
\* mutant: an empty catalog is not noticed
no_media_unchecked(media_files) == FALSE

\* "if not media_files"
no_media(media_files) == media_files = <<>>

\* a run of the demographics page with the form not submitted
DemographicsRun ==
    /\ UNCHANGED run
    /\ phase = "demographics"
    /\ \E w \in connected : ws' = w
    /\ event' = [op |-> "demographics_run"]
    /\ UNCHANGED <<phase, mode, consented, consent_timestamp_iso,
                   participant_id, name, age, gender, nationality, media_list,
                   idx, order, total_trials, order_sequence, show_started_at,
                   responses, current_trial, trial_submitted, environment>>

\* the form button "Start"; files is the number of media files of the mode's
\* kind that the directory holds
DemographicsSubmit ==
    /\ UNCHANGED run
    /\ phase = "demographics"
    /\ \E w \in connected, name_input \in NameTexts, age_input \in AgeInputs,
          gender_input \in GenderChoices,
          nationality_input \in NationalityTexts :
        /\ ws' = w
        /\ name' = strip(name_input)
        /\ age' = age_input
        /\ gender' = strip(gender_input)
        /\ nationality' = strip(nationality_input)
        /\ IF /\ strip(name_input) # <<>>
              /\ strip(gender_input) # <<>>
              /\ strip(nationality_input) # <<>>
              /\ age_input > 0
           THEN \E files \in 0..MaxCatalog :
                LET media_files ==
                        load_media_files(
                            IF startswith_img(mode) THEN "image" ELSE "video",
                            files)
                IN  /\ event' = [op |-> "start", files |-> files]
                    /\ IF no_media(media_files)
                       THEN UNCHANGED <<phase, media_list, idx, order,
                                        total_trials, order_sequence,
                                        show_started_at, current_trial,
                                        trial_submitted>>
                       ELSE \E full_order \in randomize_order(Len(media_files)) :
                            LET selected_indices ==
                                    select_indices(full_order, max_trials)
                            IN  /\ media_list' = media_files
                                /\ order' = selected_indices
                                /\ total_trials' = Len(selected_indices)
                                /\ order_sequence' =
                                       encode_order(selected_indices)
                                /\ idx' = 0
                                /\ show_started_at' = None
                                /\ current_trial' = None
                                /\ trial_submitted' = FALSE
                                /\ phase' = "show"
           ELSE /\ event' = [op |-> "start", files |-> None]
                /\ UNCHANGED <<phase, media_list, idx, order, total_trials,
                               order_sequence, show_started_at, current_trial,
                               trial_submitted>>
    /\ UNCHANGED <<mode, consented, consent_timestamp_iso, participant_id,
                   responses, environment>>

\* ------------------------------------------------------------ show
\* "total = ss.total_trials or len(ss.order)"
total == IF total_trials # 0 THEN total_trials ELSE Len(order)

\* ss.order[i] and ss.media_list[media_idx] raise no IndexError
lookup_in_range ==
    /\ idx < Len(order)
    /\ order[idx + 1] < Len(media_list)

\* mutant: the elapsed time is not counted
remaining_stuck(elapsed) == SHOW_SECONDS

\* mutant: the exposure ends a second early
remaining_short(elapsed) == SHOW_SECONDS - elapsed - 1

\* "remaining = SHOW_SECONDS - elapsed"
remaining(elapsed) == SHOW_SECONDS - elapsed

\* mutant: every run of the show page restarts the timer
timer_start_always == now

\* "if ss.show_started_at is None: ss.show_started_at = time.time()"
timer_start == IF show_started_at = None THEN now ELSE show_started_at

\* mutant: the show page reverses the plan
ShowRun_reverses_plan ==
    /\ UNCHANGED run
    /\ phase = "show"
    /\ \E w \in connected : ws' = w
    /\ event' = [op |-> "show_run"]
    /\ IF total = 0 \/ ~lookup_in_range
       THEN UNCHANGED <<phase, show_started_at, order>>
       ELSE LET started == timer_start
                elapsed == now - started
            IN  /\ show_started_at' = started
                /\ phase' = IF remaining(elapsed) > 0 THEN "show" ELSE "rate"
                /\ order' = [i \in 1..Len(order) |->
                                 order[Len(order) + 1 - i]]
    /\ UNCHANGED <<mode, consented, consent_timestamp_iso, participant_id,
                   name, age, gender, nationality, media_list, idx,
                   total_trials, order_sequence, responses, current_trial,
                   trial_submitted, environment>>

\* a run of the show page: starts the exposure timer when it is not running,
\* then either asks for another run or goes to the rate page
ShowRun ==
    /\ UNCHANGED run
    /\ phase = "show"
    /\ \E w \in connected : ws' = w
    /\ event' = [op |-> "show_run"]
    /\ IF total = 0 \/ ~lookup_in_range
       THEN UNCHANGED <<phase, show_started_at>>
       ELSE LET started == timer_start
                elapsed == now - started
            IN  /\ show_started_at' = started
                /\ phase' = IF remaining(elapsed) > 0 THEN "show" ELSE "rate"
    /\ UNCHANGED <<mode, consented, consent_timestamp_iso, participant_id,
                   name, age, gender, nationality, media_list, idx, order,
                   total_trials, order_sequence, responses, current_trial,
                   trial_submitted, environment>>

\* ------------------------------------------------------------ rate
\* mutant: two sliders land in each other's column
ratings_to_dict_swapped(sliders) ==
    [rating_angry |-> sliders.Angry,
     rating_happy |-> sliders.Happy,
     rating_sad |-> sliders.Scared,
     rating_scared |-> sliders.Sad,
     rating_surprised |-> sliders.Surprised,
     rating_neutral |-> sliders.Neutral,
     rating_disgusted |-> sliders.Disgusted,
     rating_contempt |-> sliders.Contempt]

ratings_to_dict(sliders) ==
    [rating_angry |-> sliders.Angry,
     rating_happy |-> sliders.Happy,
     rating_sad |-> sliders.Sad,
     rating_scared |-> sliders.Scared,
     rating_surprised |-> sliders.Surprised,
     rating_neutral |-> sliders.Neutral,
     rating_disgusted |-> sliders.Disgusted,
     rating_contempt |-> sliders.Contempt]

\* the "extra" of a slider form
slider_payload(sliders, result_estimate) ==
    ratings_to_dict(sliders) @@
    [result_estimate |-> result_estimate, free_text |-> <<>>]

\* the "extra" of a text form
text_payload(text, result_estimate) ==
    [rating_angry |-> <<>>, rating_happy |-> <<>>, rating_sad |-> <<>>,
     rating_scared |-> <<>>, rating_surprised |-> <<>>,
     rating_neutral |-> <<>>, rating_disgusted |-> <<>>,
     rating_contempt |-> <<>>,
     result_estimate |-> result_estimate, free_text |-> strip(text)]

\* mutant: the length is taken of the text as typed
text_too_short_unstripped(text) == Len(text) < MIN_TEXT_CHARS

\* "len(text.strip()) < MIN_TEXT_CHARS"
text_too_short(text) == Len(strip(text)) < MIN_TEXT_CHARS

\* mutant: the row carries the 0-based cursor as its position
base_row_zero_based(extra) ==
    LET i == idx
        order_index == i + 1
        media_idx == order[i + 1]
        media_path == media_list[media_idx + 1]
    IN  [response_timestamp_iso |-> isoformat(now)] @@ extra @@
        [study_id |-> STUDY_ID,
         mode |-> mode,
         participant_id |-> participant_id,
         consented |-> consented,
         consent_timestamp_iso |-> consent_timestamp_iso,
         name |-> name,
         age |-> age,
         gender |-> gender,
         nationality |-> nationality,
         trial_index |-> media_idx + 1,
         order_index |-> i,
         total_trials |-> total,
         n_completed |-> order_index,
         order_sequence |-> order_sequence,
         media_kind |-> IF startswith_img(mode) THEN "image" ELSE "video",
         media_file |-> media_path]

\* the row record_and_next builds for the trial under the cursor
base_row(extra) ==
    LET i == idx
        order_index == i + 1
        media_idx == order[i + 1]
        media_path == media_list[media_idx + 1]
    IN  [response_timestamp_iso |-> isoformat(now)] @@ extra @@
        [study_id |-> STUDY_ID,
         mode |-> mode,
         participant_id |-> participant_id,
         consented |-> consented,
         consent_timestamp_iso |-> consent_timestamp_iso,
         name |-> name,
         age |-> age,
         gender |-> gender,
         nationality |-> nationality,
         trial_index |-> media_idx + 1,
         order_index |-> order_index,
         total_trials |-> total,
         n_completed |-> order_index,
         order_sequence |-> order_sequence,
         media_kind |-> IF startswith_img(mode) THEN "image" ELSE "video",
         media_file |-> media_path]

\* mutant: the session stays in the trial loop one trial too long
next_phase_late(i, n) == IF i > n THEN "done" ELSE "show"

\* mutant: the session ends one trial early
next_phase_early(i, n) == IF i + 1 >= n THEN "done" ELSE "show"

\* "done" if ss.idx >= total else "show", for the cursor after its increment
next_phase(i, n) == IF i >= n THEN "done" ELSE "show"

\* mutant: the cursor is not advanced
record_and_next_same_trial(extra, w, append_ok) ==
    IF ~lookup_in_range
    THEN /\ trial_submitted' = TRUE
         /\ current_trial' = idx
         /\ UNCHANGED <<phase, idx, show_started_at, responses, sheet>>
    ELSE /\ responses' = Append(responses, base_row(extra))
         /\ sheet' = append_row_to_sheet(w, base_row(extra), append_ok)
         /\ idx' = idx
         /\ show_started_at' = None
         /\ trial_submitted' = FALSE
         /\ current_trial' = None
         /\ phase' = next_phase(idx, total)

\* mutant: an append that fails ends the run where it fails
record_and_next_unguarded(extra, w, append_ok) ==
    IF ~lookup_in_range
    THEN /\ trial_submitted' = TRUE
         /\ current_trial' = idx
         /\ UNCHANGED <<phase, idx, show_started_at, responses, sheet>>
    ELSE IF w = NoWorksheet \/ ~append_ok
    THEN /\ responses' = Append(responses, base_row(extra))
         /\ trial_submitted' = TRUE
         /\ current_trial' = idx
         /\ UNCHANGED <<phase, idx, show_started_at, sheet>>
    ELSE /\ responses' = Append(responses, base_row(extra))
         /\ sheet' = append_row_to_sheet(w, base_row(extra), append_ok)
         /\ idx' = idx + 1
         /\ show_started_at' = None
         /\ trial_submitted' = FALSE
         /\ current_trial' = None
         /\ phase' = next_phase(idx + 1, total)

\* mutant: the exposure-start timestamp survives the trial
record_and_next_keeps_timer(extra, w, append_ok) ==
    IF ~lookup_in_range
    THEN /\ trial_submitted' = TRUE
         /\ current_trial' = idx
         /\ UNCHANGED <<phase, idx, show_started_at, responses, sheet>>
    ELSE /\ responses' = Append(responses, base_row(extra))
         /\ sheet' = append_row_to_sheet(w, base_row(extra), append_ok)
         /\ idx' = idx + 1
         /\ show_started_at' = show_started_at
         /\ trial_submitted' = FALSE
         /\ current_trial' = None
         /\ phase' = next_phase(idx + 1, total)

\* record_and_next(extra), called with the guard flag already set; w is
\* ss.ws in this run and append_ok tells whether ws.append_row succeeds.
\* An IndexError at ss.order[i] ends the run with the flag still set.
record_and_next(extra, w, append_ok) ==
    IF ~lookup_in_range
    THEN /\ trial_submitted' = TRUE
         /\ current_trial' = idx
         /\ UNCHANGED <<phase, idx, show_started_at, responses, sheet>>
    ELSE /\ responses' = Append(responses, base_row(extra))
         /\ sheet' = append_row_to_sheet(w, base_row(extra), append_ok)
         /\ idx' = idx + 1
         /\ show_started_at' = None
         /\ trial_submitted' = FALSE
         /\ current_trial' = None
         /\ phase' = next_phase(idx + 1, total)

\* "trial submission guard": the flag as the form sees it
guard_submitted == IF current_trial # idx THEN FALSE ELSE trial_submitted

\* a run that ends in a warning or an error of the form: only the guard's
\* initialisation has happened
rejected ==
    /\ current_trial' = idx
    /\ trial_submitted' = guard_submitted
    /\ UNCHANGED <<phase, idx, show_started_at, responses, sheet>>

\* a run of the rate page with the form not submitted
RateRun ==
    /\ UNCHANGED run
    /\ phase = "rate"
    /\ \E w \in connected : ws' = w
    /\ event' = [op |-> "rate_run"]
    /\ rejected
    /\ UNCHANGED <<mode, consented, consent_timestamp_iso, participant_id,
                   name, age, gender, nationality, media_list, order,
                   total_trials, order_sequence, now, sheet_url, query_mode,
                   max_trials>>

\* the form button "Submit" of a slider mode
SliderSubmit ==
    /\ UNCHANGED run
    /\ phase = "rate"
    /\ has_sliders(mode)
    /\ \E w \in connected, sliders \in SliderInputs,
          result_estimate \in ResultChoices, append_ok \in BOOLEAN :
        /\ ws' = w
        /\ event' = [op |-> "submit", sliders |-> sliders,
                     result_estimate |-> result_estimate]
        /\ IF guard_submitted THEN rejected
           ELSE IF result_estimate = NoChoice THEN rejected
           ELSE record_and_next(slider_payload(sliders, result_estimate),
                                w, append_ok)
    /\ UNCHANGED <<mode, consented, consent_timestamp_iso, participant_id,
                   name, age, gender, nationality, media_list, order,
                   total_trials, order_sequence, now, sheet_url, query_mode,
                   max_trials>>

\* the form button "Submit" of a text mode
TextSubmit ==
    /\ UNCHANGED run
    /\ phase = "rate"
    /\ ~has_sliders(mode)
    /\ \E w \in connected, text \in TextInputs,
          result_estimate \in ResultChoices, append_ok \in BOOLEAN :
        /\ ws' = w
        /\ event' = [op |-> "submit", text |-> text,
                     result_estimate |-> result_estimate]
        /\ IF guard_submitted THEN rejected
           ELSE IF result_estimate = NoChoice THEN rejected
           ELSE IF text_too_short(text) THEN rejected
           ELSE record_and_next(text_payload(text, result_estimate),
                                w, append_ok)
    /\ UNCHANGED <<mode, consented, consent_timestamp_iso, participant_id,
                   name, age, gender, nationality, media_list, order,
                   total_trials, order_sequence, now, sheet_url, query_mode,
                   max_trials>>

\* ------------------------------------------------------------ done
\* a run of the closing page
DoneRun ==
    /\ UNCHANGED run
    /\ phase = "done"
    /\ \E w \in connected : ws' = w
    /\ event' = [op |-> "done_run"]
    /\ UNCHANGED <<phase, mode, consented, consent_timestamp_iso,
                   participant_id, name, age, gender, nationality, media_list,
                   idx, order, total_trials, order_sequence, show_started_at,
                   responses, current_trial, trial_submitted, environment>>

\* ------------------------------------------------------------ specification
Next ==
    \/ Tick
    \/ ConsentReset
    \/ ConsentRun
    \/ ConsentContinue
    \/ DemographicsRun
    \/ DemographicsSubmit
    \/ ShowRun
    \/ RateRun
    \/ SliderSubmit
    \/ TextSubmit
    \/ DoneRun

Spec == Init /\ [][Next]_vars

\* the same script with the trial cap drawn from 0..MaxCap
InitCap ==
    /\ InitEnvironment
    /\ max_trials \in 0..MaxCap
    /\ session_is(init_state(get_mode_from_query(query_mode)))

SpecCap == InitCap /\ [][Next]_vars

\* a Submit whose response is accepted
ValidSubmit ==
    /\ SliderSubmit \/ TextSubmit
    /\ Len(responses') = Len(responses) + 1

\* the script keeps being rerun while it shows a stimulus (st.rerun() after
\* time.sleep(0.1)), the clock advances, and the participant ends every
\* rate page with a valid Submit
SpecLive ==
    /\ Init
    /\ [][Next]_vars
    /\ WF_vars(Tick)
    /\ WF_vars(ShowRun)
    /\ WF_vars(ValidSubmit)

\* ------------------------------------------------------------ inside a run
\* The accepted Submit statement by statement: the flag (ss.trial_submitted =
\* True), base_row, ss.responses.append, append_row_to_sheet, then the cursor
\* and the phase.  The other runs are the ones of Spec.

\* mutant: the flag is raised only after the writes
begin_record_unflagged(extra) ==
    /\ trial_submitted' = FALSE
    /\ current_trial' = idx
    /\ run' = IF lookup_in_range
              THEN [at |-> "append", row |-> base_row(extra)]
              ELSE [at |-> "idle"]
    /\ UNCHANGED <<phase, idx, show_started_at, responses, sheet>>

\* "ss.trial_submitted = True", extra, and record_and_next up to base_row
begin_record(extra) ==
    /\ trial_submitted' = TRUE
    /\ current_trial' = idx
    /\ run' = IF lookup_in_range
              THEN [at |-> "append", row |-> base_row(extra)]
              ELSE [at |-> "idle"]
    /\ UNCHANGED <<phase, idx, show_started_at, responses, sheet>>

\* the form button "Submit" of a slider mode, up to base_row
SliderSubmitBegin ==
    /\ run.at = "idle"
    /\ phase = "rate"
    /\ has_sliders(mode)
    /\ \E w \in connected, sliders \in SliderInputs,
          result_estimate \in ResultChoices :
        /\ ws' = w
        /\ event' = [op |-> "submit", sliders |-> sliders,
                     result_estimate |-> result_estimate]
        /\ IF guard_submitted THEN rejected /\ UNCHANGED run
           ELSE IF result_estimate = NoChoice THEN rejected /\ UNCHANGED run
           ELSE begin_record(slider_payload(sliders, result_estimate))
    /\ UNCHANGED <<mode, consented, consent_timestamp_iso, participant_id,
                   name, age, gender, nationality, media_list, order,
                   total_trials, order_sequence, now, sheet_url, query_mode,
                   max_trials>>

\* the form button "Submit" of a text mode, up to base_row
TextSubmitBegin ==
    /\ run.at = "idle"
    /\ phase = "rate"
    /\ ~has_sliders(mode)
    /\ \E w \in connected, text \in TextInputs,
          result_estimate \in ResultChoices :
        /\ ws' = w
        /\ event' = [op |-> "submit", text |-> text,
                     result_estimate |-> result_estimate]
        /\ IF guard_submitted THEN rejected /\ UNCHANGED run
           ELSE IF result_estimate = NoChoice THEN rejected /\ UNCHANGED run
           ELSE IF text_too_short(text) THEN rejected /\ UNCHANGED run
           ELSE begin_record(text_payload(text, result_estimate))
    /\ UNCHANGED <<mode, consented, consent_timestamp_iso, participant_id,
                   name, age, gender, nationality, media_list, order,
                   total_trials, order_sequence, now, sheet_url, query_mode,
                   max_trials>>

\* "ss.responses.append(base_row)"
StepAppend ==
    /\ run.at = "append"
    /\ responses' = Append(responses, run.row)
    /\ run' = [at |-> "sheet", row |-> run.row]
    /\ event' = [op |-> "responses.append"]
    /\ UNCHANGED <<phase, mode, consented, consent_timestamp_iso,
                   participant_id, name, age, gender, nationality, media_list,
                   idx, order, total_trials, order_sequence, show_started_at,
                   ws, current_trial, trial_submitted, environment>>

\* mutant: an append that fails ends the run where it fails
StepSheet_uncaught ==
    /\ run.at = "sheet"
    /\ \E append_ok \in BOOLEAN :
        /\ sheet' = append_row_to_sheet(ws, run.row, append_ok)
        /\ run' = IF ws # NoWorksheet /\ ~append_ok
                  THEN [at |-> "idle"] ELSE [at |-> "advance"]
    /\ event' = [op |-> "append_row_to_sheet"]
    /\ UNCHANGED <<session, now, sheet_url, query_mode, max_trials>>

\* "append_row_to_sheet(ss.ws, base_row)"
StepSheet ==
    /\ run.at = "sheet"
    /\ \E append_ok \in BOOLEAN :
           sheet' = append_row_to_sheet(ws, run.row, append_ok)
    /\ run' = [at |-> "advance"]
    /\ event' = [op |-> "append_row_to_sheet"]
    /\ UNCHANGED <<session, now, sheet_url, query_mode, max_trials>>

\* "ss.idx += 1" to "st.rerun()"
StepAdvance ==
    /\ run.at = "advance"
    /\ idx' = idx + 1
    /\ show_started_at' = None
    /\ trial_submitted' = FALSE
    /\ current_trial' = None
    /\ phase' = next_phase(idx + 1, total)
    /\ run' = [at |-> "idle"]
    /\ event' = [op |-> "advance"]
    /\ UNCHANGED <<mode, consented, consent_timestamp_iso, participant_id,
                   name, age, gender, nationality, media_list, order,
                   total_trials, order_sequence, responses, ws, environment>>

NextSteps ==
    \/ Tick
    \/ run.at = "idle" /\ ConsentReset
    \/ run.at = "idle" /\ ConsentRun
    \/ run.at = "idle" /\ ConsentContinue
    \/ run.at = "idle" /\ DemographicsRun
    \/ run.at = "idle" /\ DemographicsSubmit
    \/ run.at = "idle" /\ ShowRun
    \/ run.at = "idle" /\ RateRun
    \/ SliderSubmitBegin
    \/ TextSubmitBegin
    \/ StepAppend
    \/ StepSheet
    \/ StepAdvance
    \/ run.at = "idle" /\ DoneRun

SpecSteps == Init /\ [][NextSteps]_vars

\* ------------------------------------------------------------ order_sequence
\* plans of distinct indices, up to MaxPlanLen of them, each at most MaxIndex
Plans ==
    UNION { {p \in [1..n -> 0..MaxIndex] :
                 \A a, b \in 1..n : p[a] = p[b] => a = b} : n \in 0..MaxPlanLen }

\* the Start handler between the assignment of ss.order and that of
\* ss.order_sequence, for any plan
InitCodec ==
    /\ InitEnvironment
    /\ max_trials = MAX_TRIALS
    /\ \E plan \in Plans :
           session_is([init_state(get_mode_from_query(query_mode))
                          EXCEPT !.phase = "demographics", !.order = plan,
                                 !.total_trials = Len(plan)])

\* "st.session_state.order_sequence = ..." of the Start handler
EncodeOrder ==
    /\ UNCHANGED run
    /\ phase = "demographics"
    /\ event.op = "open"
    /\ order_sequence' = encode_order(order)
    /\ event' = [op |-> "encode"]
    /\ UNCHANGED <<phase, mode, consented, consent_timestamp_iso,
                   participant_id, name, age, gender, nationality, media_list,
                   idx, order, total_trials, show_started_at, responses, ws,
                   current_trial, trial_submitted, environment>>

SpecCodec == InitCodec /\ [][EncodeOrder]_vars

\* ------------------------------------------------------------ properties
\* the column of order_index in a worksheet row
OrderIndexColumn == 11

Last(s) == s[Len(s)]

\* a step that appends a record to ss.responses
Recorded == Len(responses') = Len(responses) + 1

\* C1: a session moves Consent, Demographics, then Show and Rate once per
\* planned trial, then Done: every change of phase is the next one of that
\* sequence, Done is entered exactly when the cursor reaches the plan length,
\* and the cursor moves only by +1, on a step that records a response.
C1_Step ==
    /\ \/ phase' = phase
       \/ phase = "consent" /\ phase' = "demographics"
       \/ /\ phase = "demographics" /\ phase' = "show"
          /\ idx' = 0 /\ Len(order') >= 1
       \/ phase = "show" /\ phase' = "rate" /\ order' = order
       \/ /\ phase = "rate" /\ phase' = "show" /\ order' = order
          /\ idx' = idx + 1 /\ idx' < Len(order)
       \/ /\ phase = "rate" /\ phase' = "done" /\ order' = order
          /\ idx' = idx + 1 /\ idx' = Len(order)
    /\ idx' # idx => idx' = idx + 1 /\ phase = "rate" /\ Recorded
    /\ Recorded => idx' = idx + 1
    /\ idx' < idx => event'.op = "reset"

C1_PhaseSequence == [][C1_Step]_vars

C1_Witness == phase = "done" /\ Len(order) = 2 /\ idx = 2

\* C2: no cursor value has two records, in ss.responses or in the worksheet,
\* and a record's cursor value is already behind the cursor: no second submit
\* for it can be accepted.
C2_OneRecordPerCursor ==
    /\ \A a, b \in 1..Len(responses) :
           responses[a].order_index = responses[b].order_index => a = b
    /\ \A a, b \in 1..Len(sheet) :
           sheet[a][OrderIndexColumn] = sheet[b][OrderIndexColumn] => a = b
    /\ \A a \in 1..Len(responses) : responses[a].order_index <= idx
    /\ \A a \in 1..Len(sheet) : sheet[a][OrderIndexColumn] <= idx

C2_Witness ==
    /\ event.op = "submit"
    /\ Len(responses) = 2
    /\ Len(sheet) = 2
    /\ phase = "done"

\* C3: in Done the number of records is the plan length, and Done is entered
\* only from Rate, by the submit that records the last planned trial.
C3_DoneInv ==
    phase = "done" =>
        /\ Len(responses) = total_trials
        /\ total_trials = Len(order)
        /\ total_trials >= 1

C3_DoneStep ==
    phase' = "done" /\ phase # "done" =>
        /\ phase = "rate"
        /\ event'.op = "submit"
        /\ idx = total_trials - 1
        /\ Recorded
        /\ Last(responses').order_index = total_trials

C3_DoneAfterAllTrials == [](C3_DoneInv) /\ [][C3_DoneStep]_vars

C3_Witness ==
    /\ phase = "done"
    /\ Len(media_list) = 2
    /\ max_trials = MAX_TRIALS
    /\ Len(responses) = 2

\* C4: a submit with no outcome judgment, or in a text mode with a trimmed
\* text shorter than the minimum, leaves the phase at Rate and the cursor where
\* it is, appends nothing and leaves the guard flag unset.
C4_Invalid(e) ==
    \/ e.result_estimate = NoChoice
    \/ ~has_sliders(mode) /\ Len(strip(e.text)) < MIN_TEXT_CHARS

C4_Step ==
    phase = "rate" /\ event'.op = "submit" /\ C4_Invalid(event') =>
        /\ phase' = "rate"
        /\ idx' = idx
        /\ responses' = responses
        /\ sheet' = sheet
        /\ trial_submitted' = FALSE

C4_InvalidSubmitRejected == [][C4_Step]_vars

C4_Witness ==
    /\ phase = "rate"
    /\ event.op = "submit"
    /\ ~has_sliders(mode)
    /\ event.result_estimate = "Won"
    /\ event.text = <<" ", " ", " ">>
    /\ responses = <<>>

\* C5: a Start with every field valid and no media file of the mode's kind
\* leaves the phase at Demographics and builds no plan.
C5_Step ==
    /\ event'.op = "start"
    /\ event'.files = 0
    /\ name' # <<>> /\ gender' # <<>> /\ nationality' # <<>> /\ age' > 0
    => /\ phase' = "demographics"
       /\ order' = <<>>
       /\ total_trials' = 0
       /\ media_list' = <<>>

C5_EmptyCatalogRejected == [][C5_Step]_vars

C5_Witness ==
    /\ event.op = "start"
    /\ event.files = 0
    /\ name # <<>> /\ gender # <<>> /\ nationality # <<>> /\ age > 0
    /\ phase = "demographics"

\* C6: in every phase the reset to Consent can be taken.
C6_ResetFromAnyPhase == ENABLED ConsentReset

\* C7: Rate is entered only from Show and only when the time since the start
\* of the exposure is at least the duration; the start is the one of this
\* trial: Show is entered with the timer unset, the timer is set to the time
\* of the run that starts it and is not moved while the trial is shown.
C7_RateInv ==
    phase = "rate" =>
        /\ show_started_at # None
        /\ now - show_started_at >= SHOW_SECONDS

C7_Step ==
    /\ phase' = "rate" /\ phase # "rate" =>
           phase = "show" /\ now - show_started_at' >= SHOW_SECONDS
    /\ phase' = "show" /\ phase # "show" => show_started_at' = None
    /\ phase = "show" /\ show_started_at # None =>
           show_started_at' = show_started_at
    /\ phase = "show" /\ show_started_at = None /\ show_started_at' # None =>
           show_started_at' = now

C7_MinimumExposure == [](C7_RateInv) /\ [][C7_Step]_vars

C7_Witness ==
    /\ phase = "rate"
    /\ idx = 1
    /\ now - show_started_at = SHOW_SECONDS

\* C8: a valid submit advances the cursor, keeps the record in ss.responses
\* and moves to Show or to Done whatever becomes of the worksheet append.
C8_Valid(e) ==
    /\ e.result_estimate # NoChoice
    /\ has_sliders(mode) \/ Len(strip(e.text)) >= MIN_TEXT_CHARS

C8_Step ==
    phase = "rate" /\ event'.op = "submit" /\ C8_Valid(event') =>
        /\ idx' = idx + 1
        /\ phase' = IF idx + 1 >= total_trials THEN "done" ELSE "show"
        /\ Recorded
        /\ SubSeq(responses', 1, Len(responses)) = responses
        /\ Last(responses').order_index = idx + 1
        /\ Last(responses').result_estimate = event'.result_estimate

C8_SinkFailureDoesNotBlock == [][C8_Step]_vars

\* the worksheet took the first row, so it was connected, and not the second
C8_Witness ==
    /\ phase = "done"
    /\ Len(responses) = 2
    /\ ws = Worksheet
    /\ Len(sheet) = 1
    /\ sheet[1][OrderIndexColumn] = 1

C10_Step ==
    event'.op = "submit" /\ Recorded =>
        LET r == Last(responses')
            e == event'
        IN  /\ r.result_estimate = e.result_estimate
            /\ IF has_sliders(mode)
               THEN /\ r.rating_angry = e.sliders.Angry
                    /\ r.rating_happy = e.sliders.Happy
                    /\ r.rating_sad = e.sliders.Sad
                    /\ r.rating_scared = e.sliders.Scared
                    /\ r.rating_surprised = e.sliders.Surprised
                    /\ r.rating_neutral = e.sliders.Neutral
                    /\ r.rating_disgusted = e.sliders.Disgusted
                    /\ r.rating_contempt = e.sliders.Contempt
                    /\ r.free_text = <<>>
               ELSE /\ r.rating_angry = <<>>
                    /\ r.rating_happy = <<>>
                    /\ r.rating_sad = <<>>
                    /\ r.rating_scared = <<>>
                    /\ r.rating_surprised = <<>>
                    /\ r.rating_neutral = <<>>
                    /\ r.rating_disgusted = <<>>
                    /\ r.rating_contempt = <<>>
                    /\ r.free_text = strip(e.text)

C10_RecordPayload == [][C10_Step]_vars

C10_Witness ==
    /\ event.op = "submit"
    /\ has_sliders(mode)
    /\ Len(responses) = 1
    /\ event.sliders.Sad = 30
    /\ responses[1].rating_sad = 30
    /\ responses[1].rating_scared = 40
    /\ responses[1].result_estimate = "Lost"

\* C11: decoding the order-sequence string of a plan of distinct indices
\* gives the plan back, index by index.
C11_RoundTrip == event.op = "encode" => decode_order(order_sequence) = order

C11_Witness ==
    /\ event.op = "encode"
    /\ order = <<10, 9>>
    /\ order_sequence = <<"1", "0", ",", "9">>

\* C12: the mode a session starts with (at its first run and after a reset)
\* is one of the four modes: the query parameter when it is one of them, the
\* default mode when it is anything else or missing.
C12_InitialMode ==
    event.op \in {"open", "reset"} =>
        /\ mode \in {"img_sliders", "img_text", "vid_sliders", "vid_text"}
        /\ query_mode \in {"img_sliders", "img_text", "vid_sliders", "vid_text"}
               => mode = query_mode
        /\ query_mode \notin {"img_sliders", "img_text", "vid_sliders", "vid_text"}
               => mode = "img_sliders"

C12_Witness ==
    /\ event.op = "reset"
    /\ query_mode = "IMG"
    /\ mode = "img_sliders"
    /\ ws = NoWorksheet
    /\ participant_id = <<>>

\* C13: a Show page starts its timer; once the timer of trial i runs and its
\* exposure ends within the clock's horizon, the Rate page of trial i comes;
\* and a session that has entered Show reaches Done, unless it is in a Show
\* whose exposure ends beyond the clock's horizon.
C13_BeyondHorizon ==
    /\ phase = "show"
    /\ show_started_at # None
    /\ show_started_at + SHOW_SECONDS > MaxTime

C13_Progress ==
    /\ (phase = "show" /\ show_started_at = None) ~> (show_started_at # None)
    /\ \A i \in 0..MaxCatalog :
           (/\ phase = "show" /\ idx = i
            /\ show_started_at # None
            /\ show_started_at + SHOW_SECONDS <= MaxTime)
               ~> (phase = "rate" /\ idx = i)
    /\ (phase = "show") ~> (phase = "done" \/ C13_BeyondHorizon)

C13_Witness ==
    /\ phase = "done"
    /\ event.op = "done_run"
    /\ now < MaxTime

\* C14: a statement that appends to ss.responses or to the worksheet runs
\* with the guard flag already set, and leaves it set.
C14_Step ==
    responses' # responses \/ sheet' # sheet =>
        trial_submitted /\ trial_submitted'

C14_GuardBeforeWrites == [][C14_Step]_vars

C14_Witness ==
    /\ run.at = "sheet"
    /\ trial_submitted
    /\ Len(responses) = idx + 1
    /\ sheet = <<>>

\* the Start of a session whose fields are valid and whose catalog is empty
EmptyCatalogStart ==
    /\ phase = "demographics"
    /\ event'.op = "start"
    /\ event'.files = 0

\* C15 as claimed: a Start that fails on an empty catalog changes no session
\* variable, the stored name, age, gender and nationality included.
C15_NoStateChange ==
    [][EmptyCatalogStart =>
           UNCHANGED <<phase, mode, consented, consent_timestamp_iso,
                       participant_id, name, age, gender, nationality,
                       media_list, idx, order, total_trials, order_sequence,
                       show_started_at, responses, current_trial,
                       trial_submitted>>]_vars

\* C15 as amended: such a Start stores the submitted name, age, gender and
\* nationality (all valid) and changes no other session variable, the
\* worksheet handle of the run's prologue aside.
C15_Step ==
    EmptyCatalogStart =>
        /\ name' # <<>> /\ gender' # <<>> /\ nationality' # <<>> /\ age' > 0
        /\ UNCHANGED <<phase, mode, consented, consent_timestamp_iso,
                       participant_id, media_list, idx, order, total_trials,
                       order_sequence, show_started_at, responses,
                       current_trial, trial_submitted, sheet>>

C15_OnlyFieldsStored == [][C15_Step]_vars

\* a first Start of that kind: the fields were empty and are now stored
C15_Witness ==
    /\ phase = "demographics"
    /\ event.op = "start"
    /\ event.files = 0
    /\ name = <<"A", "n">>
    /\ age = 18
    /\ order = <<>>
    /\ consented

\* C16 as claimed: in Rate the exposure-start timestamp is None.
C16_ClearedInRate == phase = "rate" => show_started_at = None

\* C16 as amended: the timestamp is kept through Rate and cleared by the
\* accepted Submit that leaves Rate, so Show is always entered with it None.
C16_RateInv == phase = "rate" => show_started_at # None

C16_Step ==
    /\ phase = "show" /\ phase' = "rate" => show_started_at' # None
    /\ phase = "rate" /\ phase' = "rate" => show_started_at' = show_started_at
    /\ phase = "rate" /\ phase' # "rate" => show_started_at' = None
    /\ phase # "show" /\ phase' = "show" => show_started_at' = None

C16_ClearedOnLeavingRate == [](C16_RateInv) /\ [][C16_Step]_vars

C16_Witness ==
    /\ phase = "show"
    /\ idx = 1
    /\ show_started_at = None
    /\ event.op = "submit"

\* C17: from the first Show on, no step changes the plan, the mode or the
\* participant.
C17_Step ==
    phase \in {"show", "rate", "done"} =>
        UNCHANGED <<order, total_trials, order_sequence, media_list, mode,
                    participant_id, name, age, gender, nationality,
                    consented, consent_timestamp_iso>>

C17_PlanAndParticipantFixed == [][C17_Step]_vars

C17_Witness ==
    /\ phase = "rate"
    /\ idx = 1
    /\ event.op = "submit"
    /\ Len(responses) = 1
    /\ order = <<1, 0>>

\* C18: a rerun of the show page while its timer runs and exposure time
\* remains, and a rerun of the rate page with no Submit, change no session
\* variable of the page (all but the worksheet handle of the run's prologue)
\* and append nothing.
C18_Rerun ==
    \/ /\ phase = "show" /\ event'.op = "show_run"
       /\ show_started_at # None
       /\ SHOW_SECONDS - (now - show_started_at) > 0
    \/ /\ phase = "rate" /\ event'.op = "rate_run"
       /\ current_trial = idx

C18_Step ==
    C18_Rerun =>
        UNCHANGED <<phase, mode, consented, consent_timestamp_iso,
                    participant_id, name, age, gender, nationality,
                    media_list, idx, order, total_trials, order_sequence,
                    show_started_at, responses, current_trial,
                    trial_submitted, sheet>>

C18_RerunChangesNothing == [][C18_Step]_vars

\* a show page rerun a second after its timer started
C18_Witness ==
    /\ phase = "show"
    /\ event.op = "show_run"
    /\ show_started_at # None
    /\ now - show_started_at = 1

\* C19: past Consent the participant has consented, with a timestamp and an
\* ID; from Show on the demographic fields are filled, the age is positive
\* and the plan is not empty.
C19_EntryConditions ==
    /\ phase # "consent" =>
           /\ consented
           /\ consent_timestamp_iso # <<>>
           /\ participant_id # <<>>
    /\ phase \in {"show", "rate", "done"} =>
           /\ name # <<>>
           /\ gender # <<>>
           /\ nationality # <<>>
           /\ age > 0
           /\ order # <<>>

C19_Witness ==
    /\ phase = "rate"
    /\ participant_id = <<"P", "7">>
    /\ name = <<"A", "n">>
    /\ consent_timestamp_iso = <<"1", "Z">>

\* C20: 0 <= idx <= total_trials = len(order); idx < total_trials in Show
\* and Rate, where the plan lookup is in range; idx = total_trials in Done;
\* and ss.responses holds idx records.
C20_CursorInRange ==
    /\ 0 <= idx
    /\ idx <= total_trials
    /\ total_trials = Len(order)
    /\ Len(responses) = idx
    /\ phase \in {"show", "rate"} =>
           /\ idx < total_trials
           /\ order[idx + 1] >= 0
           /\ order[idx + 1] < Len(media_list)
    /\ phase = "done" => idx = total_trials

C20_Witness ==
    /\ phase = "show"
    /\ idx = 1
    /\ total_trials = 2
    /\ Len(responses) = 1
    /\ show_started_at # None

\* C21: the k-th record of ss.responses has order_index = k, n_completed = k
\* and trial_index = order[k-1] + 1 (0-based plan), and every record carries
\* the session's total_trials and order_sequence.
C21_RecordsInPlanOrder ==
    \A k \in 1..Len(responses) :
        /\ responses[k].order_index = k
        /\ responses[k].n_completed = k
        /\ responses[k].trial_index = order[k] + 1
        /\ responses[k].total_trials = total_trials
        /\ responses[k].order_sequence = order_sequence
        /\ responses[k].total_trials = responses[1].total_trials
        /\ responses[k].order_sequence = responses[1].order_sequence

\* a finished session of two trials shown in the order 1, 0
C21_Witness ==
    /\ Len(responses) = 2
    /\ order = <<1, 0>>
    /\ responses[1].trial_index = 2
    /\ responses[2].trial_index = 1
    /\ responses[2].order_index = 2
    /\ responses[2].order_sequence = <<"1", ",", "0">>

\* C22: between runs ss.trial_submitted is False, so the form of the rate
\* page never sees the flag set and never takes the "This response has
\* already been recorded" branch; the flag is True exactly while an accepted
\* Submit is between setting it and the cursor's advance.
C22_FlagClearBetweenRuns ==
    /\ run.at = "idle" => ~trial_submitted
    /\ run.at = "idle" /\ phase = "rate" => ~guard_submitted
    /\ run.at # "idle" => trial_submitted /\ current_trial = idx

\* the rate page of the second trial, rendered after the first trial's
\* accepted Submit has set and cleared the flag
C22_Witness ==
    /\ run.at = "idle"
    /\ phase = "rate"
    /\ idx = 1
    /\ current_trial = 1
    /\ Len(responses) = 1
    /\ ~trial_submitted

====
